---- MODULE Spec2Model ----
(***************************************************************************)
(* Model of semgrep/evaluation.py: the boolean rule-expression evaluator   *)
(* and the result materializer.                                            *)
(*                                                                         *)
(* Strings are sequences of one-character strings, so that str.replace,    *)
(* str.strip, re.match and int() are computed and not assumed.  A Python   *)
(* set of Range objects is a TLA+ set of records holding at most one       *)
(* record per (start, end): Range equality and hashing look at the         *)
(* interval only, the object kept in a set still carries its own vars.     *)
(* An Optional value is a sequence of length 0 (None) or 1.                *)
(***************************************************************************)
EXTENDS Integers, Sequences, FiniteSets, TLC

VARIABLES
    pattern_matches,   \* evaluate(): the input List[PatternMatch]
    rule,              \* evaluate(): the Rule (mode, expression, message, fix)
    allow_exec,        \* evaluate(): the allow_exec argument
    pc,                \* "start" before the call, "done" after it
    op,                \* the entry point that was called
    call_flags,        \* the Optional flags mapping the evaluator was given
    ranges_in,         \* the candidate set handed to _evaluate_expression
    res,               \* what the evaluator returned or raised, with its trace
    output             \* evaluate(): the List[RuleMatch]

vars == <<pattern_matches, rule, allow_exec, pc, op, call_flags, ranges_in, res, output>>

\* ------------------------------------------------------------------ bounds

MaxMatches == 3
MaxPos == 2
MaxChildren == 2

\* ----------------------------------------------------------------- strings

Str_X == <<"$", "X">>
Str_Y == <<"$", "Y">>
MetavarNames == {Str_X, Str_Y}

RECURSIVE SeqToSet(_)
SeqToSet(s) == IF s = <<>> THEN {} ELSE {Head(s)} \cup SeqToSet(Tail(s))

StartsWith(s, prefix) ==
    /\ Len(prefix) <= Len(s)
    /\ SubSeq(s, 1, Len(prefix)) = prefix

\* str.replace(old, new) for a non-empty old: left to right, non-overlapping.
RECURSIVE str_replace(_, _, _)
str_replace(s, old, new) ==
    IF s = <<>> THEN <<>>
    ELSE IF StartsWith(s, old)
         THEN new \o str_replace(SubSeq(s, Len(old) + 1, Len(s)), old, new)
         ELSE <<Head(s)>> \o str_replace(Tail(s), old, new)

\* The characters str.strip is given: the double quote, the single quote
\* and the backquote, written dq, sq and bq.
QuoteChars == {"dq", "sq", "bq"}

RECURSIVE lstrip(_)
lstrip(s) == IF s # <<>> /\ Head(s) \in QuoteChars THEN lstrip(Tail(s)) ELSE s

RECURSIVE rstrip(_)
rstrip(s) ==
    IF s # <<>> /\ s[Len(s)] \in QuoteChars THEN rstrip(SubSeq(s, 1, Len(s) - 1)) ELSE s

\* content.strip(quote characters)
str_strip(s) == rstrip(lstrip(s))

DigitValue(c) ==
    CASE c = "0" -> 0 [] c = "1" -> 1 [] c = "2" -> 2 [] c = "3" -> 3 [] c = "4" -> 4
      [] c = "5" -> 5 [] c = "6" -> 6 [] c = "7" -> 7 [] c = "8" -> 8 [] c = "9" -> 9
      [] OTHER -> 99

\* int(content, base): Some(value), or None for ValueError.  Contents are
\* unsigned digit strings without blanks or underscores.
RECURSIVE IntFold(_, _, _)
IntFold(s, base, acc) ==
    IF s = <<>> THEN acc ELSE IntFold(Tail(s), base, acc * base + DigitValue(Head(s)))

int_parse(content, base) ==
    IF content # <<>> /\ \A i \in 1..Len(content) : DigitValue(content[i]) < base
    THEN <<IntFold(content, base, 0)>>
    ELSE <<>>

\* re.match(regex, text) for a regex without metacharacters: a match from
\* the start of the text, not a full match.
re_match(regex, text) == StartsWith(text, regex)

\* ------------------------------------------------------------------ ranges

Range(start, end, vs) == [start |-> start, end |-> end, vars |-> vs]

\* Range.__eq__ / __hash__: the interval only.
RangeEq(a, b) == a.start = b.start /\ a.end = b.end

\* self.is_enclosing_or_eq(other)
is_enclosing_or_eq(self, other) == self.start <= other.start /\ other.end <= self.end

\* self.is_range_enclosing_or_eq(other)
is_range_enclosing_or_eq(self, other) ==
    self.start <= other.start /\ other.end <= self.end

\* r in s
InSet(r, s) == \E x \in s : RangeEq(x, r)

\* s.add(r): an equal element already in the set stays.
SetAdd(s, r) == IF InSet(r, s) THEN s ELSE s \cup {r}

\* set(seq) and {x for x in seq}: the first of equal elements is kept.
RECURSIVE SetOfSeq(_, _)
SetOfSeq(seq, acc) ==
    IF seq = <<>> THEN acc ELSE SetOfSeq(Tail(seq), SetAdd(acc, Head(seq)))

\* s.intersection(iterable): the result holds the iterable's objects.
RECURSIVE IntersectSeq(_, _, _)
IntersectSeq(s, seq, acc) ==
    IF seq = <<>> THEN acc
    ELSE IntersectSeq(s, Tail(seq),
                      IF InSet(Head(seq), s) THEN SetAdd(acc, Head(seq)) ELSE acc)

set_intersection(s, seq) == IntersectSeq(s, seq, {})

\* s.difference(iterable): the result holds s's objects.
set_difference(s, seq) == {x \in s : ~InSet(x, SeqToSet(seq))}

\* s.intersection_update(t) for a set t: the smaller set is walked (t on a
\* tie) and its objects are the ones kept.
set_intersection_update(s, t) ==
    IF Cardinality(t) > Cardinality(s)
    THEN {x \in s : InSet(x, t)}
    ELSE {x \in t : InSet(x, s)}

\* s.intersection_update(flatten(list_of_sets)): the iterable is walked in
\* list order and the first of equal objects is kept.
RECURSIVE IntersectFlatten(_, _, _)
IntersectFlatten(s, sets, acc) ==
    IF sets = <<>> THEN acc
    ELSE IntersectFlatten(s, Tail(sets),
            acc \cup {x \in Head(sets) : InSet(x, s) /\ ~InSet(x, acc)})

Keys(s) == {<<x.start, x.end>> : x \in s}

\* ----------------------------------------------------------- pattern match

\* PatternMatch.metavars is a dict in insertion order: a sequence of
\* (name, value) pairs with distinct names; the value carries abstract_content.
MetavarKeys(metavars) == {metavars[i].name : i \in 1..Len(metavars)}

\* PatternMatch.get_metavariable_value: Some(text), or None for KeyError.
get_metavariable_value(pm, metavar) ==
    IF \E i \in 1..Len(pm.metavars) : pm.metavars[i].name = metavar
    THEN LET i == CHOOSE j \in 1..Len(pm.metavars) : pm.metavars[j].name = metavar
         IN  <<pm.metavars[i].abstract_content>>
    ELSE <<>>

\* PatternMatch(id, range, metavars): the range carries the names the match binds.
PatternMatch(id, start, end, metavars) ==
    [id |-> id, range |-> Range(start, end, MetavarKeys(metavars)), metavars |-> metavars]

\* flatten(L)
RECURSIVE flatten(_)
flatten(L) == IF L = <<>> THEN <<>> ELSE Head(L) \o flatten(Tail(L))

\* group_by_pattern_id: a dict in insertion order, as a sequence of
\* [id, matches]; by_id.setdefault(id, []).append(match).
RECURSIVE GroupFold(_, _)
GroupFold(pms, by_id) ==
    IF pms = <<>> THEN by_id
    ELSE LET pm == Head(pms)
             hit == {i \in 1..Len(by_id) : by_id[i].id = pm.id}
         IN  IF hit = {}
             THEN GroupFold(Tail(pms), Append(by_id, [id |-> pm.id, matches |-> <<pm>>]))
             ELSE LET i == CHOOSE j \in hit : TRUE
                  IN  GroupFold(Tail(pms),
                        [by_id EXCEPT ![i].matches = Append(@, pm)])

group_by_pattern_id(pms) == GroupFold(pms, <<>>)

\* pattern_ids_to_pattern_matches.get(pattern_id, [])
DictGet(by_id, pattern_id) ==
    IF \E i \in 1..Len(by_id) : by_id[i].id = pattern_id
    THEN by_id[CHOOSE i \in 1..Len(by_id) : by_id[i].id = pattern_id].matches
    ELSE <<>>

\* list(flatten(pattern_ids_to_pattern_matches.values()))
DictValuesFlat(by_id) == flatten([i \in 1..Len(by_id) |-> by_id[i].matches])

MapRange(pms) == [i \in 1..Len(pms) |-> pms[i].range]

\* ------------------------------------------------------------- expressions

NoneId == "None"

\* semgrep_types.OPERATORS_WITH_CHILDREN
OPERATORS_WITH_CHILDREN == {"AND_ALL", "AND_EITHER"}

LeafOperators ==
    {"AND", "AND_NOT", "AND_INSIDE", "AND_NOT_INSIDE", "WHERE_PYTHON", "REGEX",
     "NOT_REGEX", "METAVARIABLE_REGEX", "METAVARIABLE_COMPARISON"}

\* semgrep_types.pattern_name_for_operator
pattern_name_for_operator(operator) ==
    CASE operator = "AND" -> "pattern"
      [] operator = "AND_NOT" -> "pattern-not"
      [] operator = "AND_INSIDE" -> "pattern-inside"
      [] operator = "AND_NOT_INSIDE" -> "pattern-not-inside"
      [] operator = "AND_EITHER" -> "pattern-either"
      [] operator = "AND_ALL" -> "patterns"
      [] operator = "WHERE_PYTHON" -> "pattern-where-python"
      [] operator = "REGEX" -> "pattern-regex"
      [] operator = "NOT_REGEX" -> "pattern-not-regex"
      [] operator = "METAVARIABLE_REGEX" -> "metavariable-regex"
      [] operator = "METAVARIABLE_COMPARISON" -> "metavariable-comparison"
      [] OTHER -> "unknown"

\* The operand of an expression: None, a str or a dict.
NoOperand ==
    [type |-> "none", str |-> "", metavariable |-> <<>>, regex |-> <<>>,
     comparison |-> "", strip |-> <<>>, base |-> <<>>]
StrOperand(code) == [NoOperand EXCEPT !.type = "str", !.str = code]
RegexOperand(metavariable, regex) ==
    [NoOperand EXCEPT !.type = "dict", !.metavariable = metavariable, !.regex = regex]
ComparisonOperand(metavariable, comparison, strip, base) ==
    [NoOperand EXCEPT !.type = "dict", !.metavariable = metavariable,
                      !.comparison = comparison, !.strip = strip, !.base = base]

\* BooleanRuleExpression(operator, pattern_id, children, operand); children is
\* None (<<>>) or a list (<<list>>).
BooleanRuleExpression(operator, pattern_id, children, operand) ==
    [operator |-> operator, pattern_id |-> pattern_id, children |-> children,
     operand |-> operand]

Leaf(operator, pattern_id) == BooleanRuleExpression(operator, pattern_id, <<>>, NoOperand)
Composite(operator, children) ==
    BooleanRuleExpression(operator, NoneId, <<children>>, NoOperand)

\* ------------------------------------------------------------------ errors

\* semgrep.error.FATAL_EXIT_CODE: the default code of SemgrepError
FATAL_EXIT_CODE == 2
\* semgrep.error.NEED_ARBITRARY_CODE_EXEC_EXIT_CODE
NEED_ARBITRARY_CODE_EXEC_EXIT_CODE == 5

\* What a call returned or raised, with the trace and the call log so far.
Returned(ranges, steps, calls) ==
    [err |-> "none", code |-> 0, msg |-> "", ranges |-> ranges, steps |-> steps,
     calls |-> calls]
Raised(err, code, msg, steps, calls) ==
    [err |-> err, code |-> code, msg |-> msg, ranges |-> {}, steps |-> steps,
     calls |-> calls]

\* ----------------------------------------------------- metavariable filters

\* get_re_range_matches
get_re_range_matches(metavariable, regex, ranges, pms) ==
    {r \in ranges :
        /\ metavariable \in r.vars
        /\ \E i \in 1..Len(pms) :
              /\ RangeEq(pms[i].range, r)
              /\ metavariable \in MetavarKeys(pms[i].metavars)
              /\ re_match(regex, get_metavariable_value(pms[i], metavariable)[1])}

\* semgrep.metavariable_comparison.metavariable_comparison, for the
\* comparisons "$X > 5" and "$X == 7" over the converted number.
metavariable_comparison(metavariable, comparison, converted) ==
    CASE comparison = "$X > 5" -> metavariable = Str_X /\ converted > 5
      [] comparison = "$X == 7" -> metavariable = Str_X /\ converted = 7
      [] OTHER -> FALSE

\* compare_range_match; contents hold no ".", so int() is the conversion.
compare_range_match(metavariable, comparison, strip, base, content) ==
    LET stripped == IF strip = <<TRUE>> THEN str_strip(content) ELSE content
        converted == int_parse(stripped, IF base = <<>> THEN 10 ELSE base[1])
    IN  IF converted = <<>>
        THEN FALSE
        ELSE metavariable_comparison(metavariable, comparison, converted[1])

\* get_comparison_range_matches
get_comparison_range_matches(metavariable, comparison, strip, base, ranges, pms) ==
    {r \in ranges :
        /\ metavariable \in r.vars
        /\ \E i \in 1..Len(pms) :
              /\ RangeEq(pms[i].range, r)
              /\ metavariable \in MetavarKeys(pms[i].metavars)
              /\ compare_range_match(metavariable, comparison, strip, base,
                                     get_metavariable_value(pms[i], metavariable)[1])}

\* ------------------------------------------------------------ where-python

\* exec(to_eval, scope) and scope[RETURN_VAR], for three predicates:
\*   "vars[$X] == a"  a comparison of the bound text of $X
\*   "vars[$X]"       the bound text of $X itself, a str
\*   "1/0"            a ZeroDivisionError
\* The outcome is the value ("True", "False", "NonBool") or the exception
\* class caught ("KeyError", "Exception").
ExecOutcome(where_expression, metavars) ==
    LET bound == Str_X \in MetavarKeys(metavars)
        text  == (CHOOSE i \in 1..Len(metavars) : metavars[i].name = Str_X)
    IN  CASE where_expression = "vars[$X] == a" ->
                IF ~bound THEN "KeyError"
                ELSE IF metavars[text].abstract_content = <<"a">> THEN "True" ELSE "False"
          [] where_expression = "vars[$X]" ->
                IF ~bound THEN "KeyError" ELSE "NonBool"
          [] OTHER -> "Exception"

\* _where_python_statement_matches letting KeyError out of the try block
WhereMatches_KeyErrorEscapes(where_expression, metavars) ==
    LET outcome == ExecOutcome(where_expression, metavars)
    IN  IF outcome \in {"KeyError", "NonBool"} THEN "raise"
        ELSE IF outcome = "Exception" THEN "False" ELSE outcome

\* _where_python_statement_matches: "True", "False", or "raise" for the
\* SemgrepError of a result that is not a bool.  result starts as False and
\* stays so when exec raises.
_where_python_statement_matches(where_expression, metavars) ==
    LET outcome == ExecOutcome(where_expression, metavars)
        result  == IF outcome \in {"KeyError", "Exception"} THEN "False" ELSE outcome
    IN  IF result \notin {"True", "False"} THEN "raise" ELSE result

\* --------------------------------------------------------- leaf operators

\* ranges_for_pattern: the ranges of the matches of expression.pattern_id
RangesForPattern(expression, by_id) ==
    IF expression.pattern_id \notin {NoneId, ""}
    THEN MapRange(DictGet(by_id, expression.pattern_id))
    ELSE <<>>

\* OPERATORS.AND, OPERATORS.REGEX
AndRanges(ranges_left, ranges_for_pattern) ==
    set_intersection(ranges_left, ranges_for_pattern)

\* OPERATORS.AND_NOT
AndNotRanges(ranges_left, ranges_for_pattern) ==
    set_difference(ranges_left, ranges_for_pattern)

\* AndInsideRanges with the enclosure test turned around
AndInsideRanges_Reversed(ranges_left, ranges_for_pattern) ==
    {r \in ranges_left :
        \E i \in 1..Len(ranges_for_pattern) : is_enclosing_or_eq(r, ranges_for_pattern[i])}

\* OPERATORS.AND_INSIDE
AndInsideRanges(ranges_left, ranges_for_pattern) ==
    {r \in ranges_left :
        \E i \in 1..Len(ranges_for_pattern) : is_enclosing_or_eq(ranges_for_pattern[i], r)}

\* OPERATORS.AND_NOT_INSIDE
AndNotInsideRanges(ranges_left, ranges_for_pattern) ==
    {r \in ranges_left :
        ~\E i \in 1..Len(ranges_for_pattern) : is_enclosing_or_eq(ranges_for_pattern[i], r)}

\* OPERATORS.NOT_REGEX
NotRegexRanges(ranges_left, ranges_for_pattern) ==
    {r \in ranges_left :
        ~\E i \in 1..Len(ranges_for_pattern) :
            is_range_enclosing_or_eq(r, ranges_for_pattern[i])}

\* OPERATORS.WHERE_PYTHON: the matches the predicate is run on, in order
WhereCandidates(ranges_left, pms) ==
    SelectSeq(pms, LAMBDA pm : InSet(pm.range, ranges_left))

\* OPERATORS.WHERE_PYTHON: the set comprehension over the flattened matches
WherePythonRanges(operand, ranges_left, pms) ==
    SetOfSeq(MapRange(SelectSeq(WhereCandidates(ranges_left, pms),
                LAMBDA pm : _where_python_statement_matches(operand, pm.metavars) = "True")),
             {})

\* The runs of exec() in the set comprehension, added to the call log: one
\* entry per match the predicate is run on, up to the first run that raises.
RECURSIVE ExecLog(_, _, _, _)
ExecLog(calls, operand, candidates, k) ==
    IF k > Len(candidates) THEN calls
    ELSE LET entry == [path |-> calls[Len(calls)].path, operator |-> "exec",
                       ranges_left |-> {candidates[k].range},
                       note |-> ExecOutcome(operand, candidates[k].metavars)]
         IN  IF _where_python_statement_matches(operand, candidates[k].metavars) = "raise"
             THEN Append(calls, entry)
             ELSE ExecLog(Append(calls, entry), operand, candidates, k + 1)

\* ExecRefused with the test for absent flags lost
ExecRefused_FlagsPresent(flags) == flags # <<>> /\ flags[1] = FALSE

\* not flags or not flags[RCE_RULE_FLAG]
ExecRefused(flags) == flags = <<>> \/ flags[1] = FALSE

\* The SemgrepError raised when arbitrary code execution is not enabled
NeedExecError(steps, calls) ==
    Raised("SemgrepError", NEED_ARBITRARY_CODE_EXEC_EXIT_CODE, "need_exec", steps, calls)

\* get_metavar_debugging_info: metavariable name -> list of values, in
\* insertion order, as a sequence of [name, vals].
RECURSIVE MetavarFold(_, _)
MetavarFold(entries, acc) ==
    IF entries = <<>> THEN acc
    ELSE LET e == Head(entries)
             hit == {i \in 1..Len(acc) : acc[i].name = e.name}
         IN  IF hit = {}
             THEN MetavarFold(Tail(entries),
                      Append(acc, [name |-> e.name, vals |-> <<e.abstract_content>>]))
             ELSE MetavarFold(Tail(entries),
                      [acc EXCEPT ![CHOOSE i \in hit : TRUE].vals =
                                      Append(@, e.abstract_content)])

get_metavar_debugging_info(expression, by_id) ==
    IF expression.pattern_id # NoneId
    THEN LET pms == DictGet(by_id, expression.pattern_id)
         IN  MetavarFold(flatten([i \in 1..Len(pms) |-> pms[i].metavars]), <<>>)
    ELSE <<>>

\* One entry of steps_for_debugging.  by_id is filled in the initial entry
\* only, whose "ranges" is a mapping from pattern id to ranges.
Step(filter, pattern_id, ranges, metavar_ranges) ==
    [filter |-> filter, pattern_id |-> pattern_id, ranges |-> ranges,
     metavar_ranges |-> metavar_ranges, by_id |-> <<>>]

\* add_debugging_info
add_debugging_info(expression, output_ranges, metavars_for_patterns, steps) ==
    Append(steps, Step(pattern_name_for_operator(expression.operator),
                       expression.pattern_id, output_ranges, metavars_for_patterns))

\* _evaluate_single_expression
_evaluate_single_expression(expression, by_id, ranges_left, steps, calls, flags) ==
    LET ranges_for_pattern == RangesForPattern(expression, by_id)
        operator == expression.operator
        operand  == expression.operand
        flat     == DictValuesFlat(by_id)
        logged(output_ranges, log) ==
            Returned(output_ranges,
                     add_debugging_info(expression, output_ranges,
                                        get_metavar_debugging_info(expression, by_id),
                                        steps),
                     log)
        done(output_ranges) == logged(output_ranges, calls)
    IN  CASE operator = "AND" -> done(AndRanges(ranges_left, ranges_for_pattern))
          [] operator = "AND_NOT" -> done(AndNotRanges(ranges_left, ranges_for_pattern))
          [] operator = "AND_INSIDE" -> done(AndInsideRanges(ranges_left, ranges_for_pattern))
          [] operator = "AND_NOT_INSIDE" ->
                done(AndNotInsideRanges(ranges_left, ranges_for_pattern))
          [] operator = "WHERE_PYTHON" ->
                IF ExecRefused(flags) THEN NeedExecError(steps, calls)
                ELSE IF operand.type # "str"
                THEN Raised("SemgrepError", FATAL_EXIT_CODE, "expected_string", steps, calls)
                ELSE IF \E i \in 1..Len(flat) :
                           /\ InSet(flat[i].range, ranges_left)
                           /\ _where_python_statement_matches(operand.str, flat[i].metavars)
                                = "raise"
                THEN Raised("SemgrepError", FATAL_EXIT_CODE, "needs_boolean", steps,
                            ExecLog(calls, operand.str, WhereCandidates(ranges_left, flat), 1))
                ELSE logged(WherePythonRanges(operand.str, ranges_left, flat),
                            ExecLog(calls, operand.str, WhereCandidates(ranges_left, flat), 1))
          [] operator = "REGEX" -> done(AndRanges(ranges_left, ranges_for_pattern))
          [] operator = "NOT_REGEX" -> done(NotRegexRanges(ranges_left, ranges_for_pattern))
          [] operator = "METAVARIABLE_REGEX" ->
                IF operand.type # "dict"
                THEN Raised("SemgrepError", FATAL_EXIT_CODE, "expected_mapping", steps, calls)
                ELSE done(get_re_range_matches(operand.metavariable, operand.regex,
                                               ranges_left, flat))
          [] operator = "METAVARIABLE_COMPARISON" ->
                IF operand.type # "dict"
                THEN Raised("SemgrepError", FATAL_EXIT_CODE, "expected_mapping", steps, calls)
                ELSE done(get_comparison_range_matches(operand.metavariable,
                              operand.comparison, operand.strip, operand.base,
                              ranges_left, flat))
          [] OTHER ->
                Raised("UnknownOperatorError", FATAL_EXIT_CODE, "unknown_operator",
                       steps, calls)

\* ------------------------------------------------------ recursive evaluator

\* The call log: one entry per call of _evaluate_expression, with the position
\* of the expression in the tree (the child indexes from the root) and the
\* candidate set the call was given; the runs of exec() are logged between,
\* each with the range of its match and what exec() did.
Call(path, expression, ranges_left) ==
    [path |-> path, operator |-> expression.operator, ranges_left |-> ranges_left,
     note |-> ""]

\* EitherChildInput handing a child the set as narrowed by the sibling before it
EitherChildInput_Narrowed(ranges_left, evaluated_ranges) ==
    IF evaluated_ranges = <<>> THEN ranges_left
    ELSE set_intersection_update(ranges_left, evaluated_ranges[Len(evaluated_ranges)])

\* AND_EITHER: the set a child is evaluated against, ranges_left.copy(); the
\* node's set is not updated before every child has been evaluated.
EitherChildInput(ranges_left, evaluated_ranges) == ranges_left

\* AND_ALL: the set a child is evaluated against, ranges_left.copy(), where
\* ranges_left has been intersected with the earlier children's results.
AllChildInput(ranges_left) == ranges_left

\* AND_EITHER: ranges_left.intersection_update(flatten(evaluated_ranges))
EitherUpdate(ranges_left, evaluated_ranges) ==
    IntersectFlatten(ranges_left, evaluated_ranges, {})

\* AllUpdate leaving the running set as it was
AllUpdate_Skip(ranges_left, remainining_ranges) == ranges_left

\* AND_ALL: ranges_left.intersection_update(remainining_ranges)
AllUpdate(ranges_left, remainining_ranges) ==
    set_intersection_update(ranges_left, remainining_ranges)

\* expression.children is None, for a composite
CompositeLacksChildren(expression) == expression.children = <<>>

\* expression.children is not None, for a leaf
LeafHasChildren(expression) == expression.children # <<>>

RECURSIVE _evaluate_expression(_, _, _, _, _, _, _)
RECURSIVE EvaluateEither(_, _, _, _, _, _, _, _, _)
RECURSIVE EvaluateAll(_, _, _, _, _, _, _, _)

\* The list comprehension of AND_EITHER from child i on; evaluated_ranges
\* holds the results of the children before i.
EvaluateEither(children, i, by_id, ranges_left, evaluated_ranges, steps, calls, flags, path) ==
    IF i > Len(children)
    THEN [err |-> "none", code |-> 0, msg |-> "", ranges |-> {}, steps |-> steps,
          calls |-> calls, evaluated |-> evaluated_ranges]
    ELSE LET r == _evaluate_expression(children[i], by_id,
                      EitherChildInput(ranges_left, evaluated_ranges),
                      steps, calls, flags, Append(path, i))
         IN  IF r.err # "none"
             THEN [err |-> r.err, code |-> r.code, msg |-> r.msg, ranges |-> {},
                   steps |-> r.steps, calls |-> r.calls, evaluated |-> evaluated_ranges]
             ELSE EvaluateEither(children, i + 1, by_id, ranges_left,
                                 Append(evaluated_ranges, r.ranges),
                                 r.steps, r.calls, flags, path)

\* The loop of AND_ALL from child i on; ranges_left is the running set.
EvaluateAll(children, i, by_id, ranges_left, steps, calls, flags, path) ==
    IF i > Len(children)
    THEN Returned(ranges_left, steps, calls)
    ELSE LET r == _evaluate_expression(children[i], by_id, AllChildInput(ranges_left),
                                       steps, calls, flags, Append(path, i))
         IN  IF r.err # "none"
             THEN r
             ELSE EvaluateAll(children, i + 1, by_id, AllUpdate(ranges_left, r.ranges),
                              r.steps, r.calls, flags, path)

\* _evaluate_expression
_evaluate_expression(expression, by_id, ranges_left, steps, calls0, flags, path) ==
    LET calls == Append(calls0, Call(path, expression, ranges_left))
        composite_step(r) ==
            Returned(r.ranges,
                     Append(r.steps, Step(pattern_name_for_operator(expression.operator),
                                          NoneId, r.ranges, <<>>)),
                     r.calls)
    IN  IF expression.operator \in OPERATORS_WITH_CHILDREN
        THEN IF CompositeLacksChildren(expression)
             THEN Raised("SemgrepError", FATAL_EXIT_CODE, "must_have_children", steps, calls)
             ELSE IF expression.operator = "AND_EITHER"
             THEN LET e == EvaluateEither(expression.children[1], 1, by_id, ranges_left,
                                          <<>>, steps, calls, flags, path)
                  IN  IF e.err # "none"
                      THEN Raised(e.err, e.code, e.msg, e.steps, e.calls)
                      ELSE composite_step(
                               Returned(EitherUpdate(ranges_left, e.evaluated),
                                        e.steps, e.calls))
             ELSE IF expression.operator = "AND_ALL"
             THEN LET a == EvaluateAll(expression.children[1], 1, by_id, ranges_left,
                                       steps, calls, flags, path)
                  IN  IF a.err # "none" THEN a ELSE composite_step(a)
             ELSE Raised("UnknownOperatorError", FATAL_EXIT_CODE, "unknown_operator",
                         steps, calls)
        ELSE IF LeafHasChildren(expression)
             THEN Raised("SemgrepError", FATAL_EXIT_CODE, "must_not_have_children",
                         steps, calls)
             ELSE _evaluate_single_expression(expression, by_id, ranges_left, steps,
                                              calls, flags)

\* evaluate_expression
evaluate_expression(expression, by_id, steps, flags) ==
    _evaluate_expression(expression, by_id,
                         SetOfSeq(MapRange(DictValuesFlat(by_id)), {}),
                         steps, <<>>, flags, <<>>)

\* ------------------------------------------------------ result materializer

\* all_pattern_match_metavariables: metavariable name -> the matches binding
\* it, in insertion order, as a sequence of [name, matches].
RECURSIVE AllMetavarsFold(_, _, _)
AllMetavarsFold(pms, k, acc) ==
    IF pms = <<>> THEN acc
    ELSE IF k > Len(Head(pms).metavars) THEN AllMetavarsFold(Tail(pms), 1, acc)
    ELSE LET pm == Head(pms)
             metavar_text == pm.metavars[k].name
             hit == {i \in 1..Len(acc) : acc[i].name = metavar_text}
         IN  IF hit = {}
             THEN AllMetavarsFold(pms, k + 1,
                      Append(acc, [name |-> metavar_text, matches |-> <<pm>>]))
             ELSE AllMetavarsFold(pms, k + 1,
                      [acc EXCEPT ![CHOOSE i \in hit : TRUE].matches = Append(@, pm)])

AllPatternMatchMetavariables(pms) == AllMetavarsFold(pms, 1, <<>>)

\* pattern_matches_with_metavars_that_enclose_match
EnclosingMatches(pattern_match, matches) ==
    SelectSeq(matches,
              LAMBDA m : is_range_enclosing_or_eq(m.range, pattern_match.range))

\* PickEnclosing reading the last element of the filtered list
PickEnclosing_Last(enclosing) == enclosing[Len(enclosing)]

\* The element of the filtered list that is read: index 0
PickEnclosing(enclosing) == enclosing[1]

\* replace_text of interpolate_message_metavariables for one metavariable
ReplaceText(pattern_match, metavar_text, matches) ==
    LET own == get_metavariable_value(pattern_match, metavar_text)
        enclosing == EnclosingMatches(pattern_match, matches)
    IN  IF own # <<>> THEN own[1]
        ELSE IF Len(enclosing) > 0
             THEN get_metavariable_value(PickEnclosing(enclosing), metavar_text)[1]
             ELSE metavar_text

\* interpolate_message_metavariables: the loop from entry k on
RECURSIVE MessageFold(_, _, _, _)
MessageFold(msg_text, pattern_match, all_metavars, k) ==
    IF k > Len(all_metavars) THEN msg_text
    ELSE MessageFold(str_replace(msg_text, all_metavars[k].name,
                                 ReplaceText(pattern_match, all_metavars[k].name,
                                             all_metavars[k].matches)),
                     pattern_match, all_metavars, k + 1)

interpolate_message_metavariables(rule_, pattern_match, all_metavars) ==
    MessageFold(rule_.message, pattern_match, all_metavars, 1)

\* FixMetavars looping over every metavariable name, bound by the match or not
FixMetavars_AllNames(pattern_match) == <<Str_X, Str_Y>>

\* The metavariables interpolate_fix_metavariables loops over
FixMetavars(pattern_match) ==
    [i \in 1..Len(pattern_match.metavars) |-> pattern_match.metavars[i].name]

\* interpolate_fix_metavariables: the loop from name k on.  A lookup that
\* fails raises KeyError.
RECURSIVE FixFold(_, _, _, _)
FixFold(fix_str, pattern_match, names, k) ==
    IF k > Len(names) THEN [err |-> "none", fix |-> <<fix_str>>]
    ELSE LET value == get_metavariable_value(pattern_match, names[k])
         IN  IF value = <<>> THEN [err |-> "KeyError", fix |-> <<>>]
             ELSE FixFold(str_replace(fix_str, names[k], value[1]), pattern_match,
                          names, k + 1)

interpolate_fix_metavariables(rule_, pattern_match) ==
    IF rule_.fix = <<>> THEN [err |-> "none", fix |-> <<>>]
    ELSE FixFold(rule_.fix[1], pattern_match, FixMetavars(pattern_match), 1)

\* RuleMatch.from_pattern_match
RuleMatch(pattern_match, message, fix) ==
    [pattern_match |-> pattern_match, message |-> message, fix |-> fix]

\* The test that selects the matches reported
IsValidMatch(pattern_match, valid_ranges_to_output) ==
    InSet(pattern_match.range, valid_ranges_to_output)

\* OutputAppend putting the new finding first
OutputAppend_Front(out, rule_match) == <<rule_match>> \o out

\* output.append(rule_match)
OutputAppend(out, rule_match) == Append(out, rule_match)

\* The loop of evaluate() over pattern_matches from match k on
RECURSIVE OutputFold(_, _, _, _, _, _)
OutputFold(rule_, pms, valid_ranges_to_output, all_metavars, k, out) ==
    IF k > Len(pms) THEN [err |-> "none", output |-> out]
    ELSE IF ~IsValidMatch(pms[k], valid_ranges_to_output)
    THEN OutputFold(rule_, pms, valid_ranges_to_output, all_metavars, k + 1, out)
    ELSE LET message == interpolate_message_metavariables(rule_, pms[k], all_metavars)
             f == interpolate_fix_metavariables(rule_, pms[k])
         IN  IF f.err # "none" THEN [err |-> f.err, output |-> <<>>]
             ELSE OutputFold(rule_, pms, valid_ranges_to_output, all_metavars, k + 1,
                             OutputAppend(out, RuleMatch(pms[k], message, f.fix)))

\* The first entry of steps_for_debugging
InitialStep(by_id) ==
    [filter |-> "initial", pattern_id |-> NoneId, ranges |-> {}, metavar_ranges |-> <<>>,
     by_id |-> [i \in 1..Len(by_id) |->
                  [id |-> by_id[i].id,
                   ranges |-> SetOfSeq(MapRange(by_id[i].matches), {})]]]

TAINT_MODE == "taint"

\* valid_ranges_to_output in taint mode
TaintRanges(pms) == SetOfSeq(MapRange(pms), {})

\* EvaluateRanges without the taint-mode shortcut
EvaluateRanges_NoShortcut(rule_, pms, allow) ==
    LET by_id == group_by_pattern_id(pms)
    IN  evaluate_expression(rule_.expression, by_id, <<InitialStep(by_id)>>, <<allow>>)

\* evaluate(), up to valid_ranges_to_output
EvaluateRanges(rule_, pms, allow) ==
    LET by_id == group_by_pattern_id(pms)
        steps_for_debugging == <<InitialStep(by_id)>>
    IN  IF rule_.mode = TAINT_MODE
        THEN Returned(TaintRanges(pms), steps_for_debugging, <<>>)
        ELSE evaluate_expression(rule_.expression, by_id, steps_for_debugging, <<allow>>)

\* evaluate(): [res, output]
evaluate(rule_, pms, allow) ==
    LET r == EvaluateRanges(rule_, pms, allow)
    IN  IF r.err # "none" THEN [res |-> r, output |-> <<>>]
        ELSE LET o == OutputFold(rule_, pms, r.ranges,
                                 AllPatternMatchMetavariables(pms), 1, <<>>)
             IN  IF o.err # "none"
                 THEN [res |-> Raised(o.err, 0, "fix", r.steps, r.calls), output |-> <<>>]
                 ELSE [res |-> r, output |-> o.output]

\* ------------------------------------------------------------------ actions

NoResult == Returned({}, <<>>, <<>>)

\* All ranges of the registry: the candidate set evaluate_expression starts from
AllRanges(pms) == SetOfSeq(MapRange(DictValuesFlat(group_by_pattern_id(pms))), {})

\* A call of evaluate(rule, pattern_matches, allow_exec)
Evaluate ==
    /\ pc = "start"
    /\ LET e == evaluate(rule, pattern_matches, allow_exec)
       IN  /\ res' = e.res
           /\ output' = e.output
    /\ op' = "evaluate"
    /\ pc' = "done"
    /\ UNCHANGED <<pattern_matches, rule, allow_exec, call_flags, ranges_in>>

\* A call of evaluate_expression(rule.expression, registry, [], flags)
EvaluateExpression ==
    /\ pc = "start"
    /\ res' = evaluate_expression(rule.expression, group_by_pattern_id(pattern_matches),
                                  <<>>, call_flags)
    /\ op' = "evaluate_expression"
    /\ pc' = "done"
    /\ UNCHANGED <<pattern_matches, rule, allow_exec, call_flags, ranges_in, output>>

\* A call of _evaluate_expression(rule.expression, registry, ranges_in, [], flags)
EvaluateExpressionOn ==
    /\ pc = "start"
    /\ res' = _evaluate_expression(rule.expression, group_by_pattern_id(pattern_matches),
                                   ranges_in, <<>>, <<>>, call_flags, <<>>)
    /\ op' = "_evaluate_expression"
    /\ pc' = "done"
    /\ UNCHANGED <<pattern_matches, rule, allow_exec, call_flags, ranges_in, output>>

Next == Evaluate \/ EvaluateExpression \/ EvaluateExpressionOn

\* ------------------------------------------------------------------ inputs

Intervals == {iv \in (0..MaxPos) \X (1..MaxPos) : iv[1] < iv[2]}

Binding(name, text) == [name |-> name, abstract_content |-> text]

Matches(ids, bindings) ==
    {PatternMatch(id, iv[1], iv[2], mv) : id \in ids, iv \in Intervals, mv \in bindings}

Lists(S, n) == UNION {[1..k -> S] : k \in 0..n}

Rule(mode, expression, message, fix) ==
    [mode |-> mode, expression |-> expression, message |-> message, fix |-> fix]

\* The state before a call: the inputs, drawn from the given sets.  The flags
\* are None or the mapping evaluate() builds from allow_exec; the candidate
\* set is the registry's full set of ranges, or any subset of it.
Inputs(match_lists, rules, allows, any_candidates) ==
    /\ pattern_matches \in match_lists
    /\ rule \in rules
    /\ allow_exec \in allows
    /\ call_flags \in {<<>>, <<allow_exec>>}
    /\ ranges_in \in IF any_candidates THEN SUBSET AllRanges(pattern_matches)
                     ELSE {AllRanges(pattern_matches)}
    /\ pc = "start"
    /\ op = "none"
    /\ res = NoResult
    /\ output = <<>>

\* ---------------------------------------------------- specification: Spec
\* evaluate() and the evaluator on well-formed and malformed expression
\* trees, in both rule modes, with and without the capability flag.

X_a == <<Binding(Str_X, <<"a">>)>>
X_b == <<Binding(Str_X, <<"b">>)>>

WideIntervals == {<<0, MaxPos>>, <<0, 1>>}

MatchesOn(ids, intervals, bindings) ==
    {PatternMatch(id, iv[1], iv[2], mv) : id \in ids, iv \in intervals, mv \in bindings}

WhereLeaf(code) ==
    BooleanRuleExpression("WHERE_PYTHON", NoneId, <<>>, StrOperand(code))

MainChildren == {Leaf("AND", "p1"), WhereLeaf("vars[$X] == a"), Leaf("BOGUS", NoneId)}

MainLeaves ==
    MainChildren \cup
    {Leaf("AND_NOT", "p1"), Leaf("WHERE_PYTHON", NoneId), Leaf("METAVARIABLE_REGEX", NoneId),
     BooleanRuleExpression("WHERE_PYTHON", NoneId, <<>>, RegexOperand(Str_X, <<"a">>))}

WithChildren(expression, children) == [expression EXCEPT !.children = <<children>>]

MainExpressions ==
    MainLeaves
    \cup {WithChildren(e, c) : e \in MainChildren, c \in {<<>>, <<Leaf("AND", "p1")>>}}
    \cup {Leaf(o, NoneId) : o \in OPERATORS_WITH_CHILDREN}
    \cup {Composite(o, c) : o \in OPERATORS_WITH_CHILDREN, c \in Lists(MainChildren, MaxChildren)}
    \cup {Composite(o, <<Leaf("AND", "p1"), e>>) :
            o \in OPERATORS_WITH_CHILDREN,
            e \in {Leaf(o2, NoneId) : o2 \in OPERATORS_WITH_CHILDREN}
                  \cup {Composite(o2, <<>>) : o2 \in OPERATORS_WITH_CHILDREN}
                  \cup {WithChildren(WhereLeaf("vars[$X] == a"), <<>>)}}

MainRules == {Rule(m, e, <<>>, <<>>) : m \in {"search", TAINT_MODE}, e \in MainExpressions}

Init ==
    Inputs(Lists(MatchesOn({"p1"}, WideIntervals, {<<>>, X_a}), MaxMatches),
           MainRules, BOOLEAN, FALSE)

Spec == Init /\ [][Next]_vars

\* ------------------------------------------------------------ claim helpers

\* The expression at a position of the tree
RECURSIVE NodeAt(_, _)
NodeAt(expression, path) ==
    IF path = <<>> THEN expression
    ELSE NodeAt(expression.children[1][Head(path)], Tail(path))

\* The entries of the call log that are calls of _evaluate_expression
CallEntries == {k \in 1..Len(res.calls) : res.calls[k].operator # "exec"}
ExecEntries == {k \in 1..Len(res.calls) : res.calls[k].operator = "exec"}

MatchKeys == {<<pattern_matches[i].range.start, pattern_matches[i].range.end>> :
                i \in 1..Len(pattern_matches)}

\* ------------------------------------------------------------------- C1

\* C1: in taint mode evaluate() returns normally whatever the expression
\* tree is, the valid ranges are exactly the ranges of the input matches, no
\* expression is evaluated and the trace holds only the initial entry.
C1_TaintBypass ==
    (pc = "done" /\ op = "evaluate" /\ rule.mode = TAINT_MODE) =>
        /\ res.err = "none"
        /\ Keys(res.ranges) = MatchKeys
        /\ res.ranges \subseteq {pattern_matches[i].range : i \in 1..Len(pattern_matches)}
        /\ res.calls = <<>>
        /\ Len(res.steps) = 1
        /\ res.steps[1].filter = "initial"
        /\ Len(output) = Len(pattern_matches)

C1_Witness ==
    /\ pc = "done" /\ op = "evaluate" /\ rule.mode = TAINT_MODE
    /\ rule.expression.operator = "AND_EITHER"
    /\ rule.expression.children = << <<Leaf("BOGUS", NoneId), WhereLeaf("vars[$X] == a")>> >>
    /\ ~allow_exec
    /\ Cardinality(MatchKeys) = 2

\* ------------------------------------------------------------------- C4

\* The input positions of the matches whose range survived
Surviving == {i \in 1..Len(pattern_matches) :
                \E r \in res.ranges : RangeEq(r, pattern_matches[i].range)}

\* C4: a normal return of evaluate() holds one finding per input match whose
\* range is among the valid ranges, in input order.
C4_FindingsInInputOrder ==
    (pc = "done" /\ op = "evaluate" /\ res.err = "none") =>
        /\ Len(output) = Cardinality(Surviving)
        /\ \A k \in 1..Len(output) :
              \E i \in Surviving :
                  /\ Cardinality({j \in Surviving : j <= i}) = k
                  /\ output[k].pattern_match = pattern_matches[i]

C4_Witness ==
    /\ pc = "done" /\ op = "evaluate" /\ res.err = "none" /\ rule.mode = "search"
    /\ Len(output) = 2 /\ Len(pattern_matches) = 3
    /\ RangeEq(output[1].pattern_match.range, output[2].pattern_match.range)
    /\ output[1].pattern_match # output[2].pattern_match
    /\ Surviving = {1, 3}

\* ------------------------------------------------------------------- C7

\* The calls given an expression that breaks the arity rule
ArityViolations ==
    {k \in CallEntries :
        LET n == NodeAt(rule.expression, res.calls[k].path)
        IN  \/ n.operator \in LeafOperators /\ n.children # <<>>
            \/ n.operator \in OPERATORS_WITH_CHILDREN
                 /\ (n.children = <<>> \/ n.children = << <<>> >>)}

\* C7: whenever evaluation reaches a leaf operator that carries children, or
\* a composite operator without children (None or an empty list), the call
\* raises the schema SemgrepError and returns no range set.
C7_ArityEnforced ==
    (pc = "done" /\ ArityViolations # {}) =>
        /\ res.err = "SemgrepError"
        /\ res.msg \in {"must_have_children", "must_not_have_children"}

\* ----------------------------------------------- specification: SpecWhere
\* WHERE_PYTHON leaves, alone and inside composites, on matches that bind $X
\* to "a", to "b" or not at all, against every subset of the registry's ranges.

WhereLeaves ==
    {WhereLeaf("vars[$X] == a"), WhereLeaf("vars[$X]"), WhereLeaf("1/0"),
     Leaf("WHERE_PYTHON", NoneId),
     BooleanRuleExpression("WHERE_PYTHON", NoneId, <<>>, RegexOperand(Str_X, <<"a">>))}

WhereChildren ==
    {WhereLeaf("vars[$X] == a"), WhereLeaf("vars[$X]"), Leaf("AND_NOT", "p2")}

WhereExpressions ==
    WhereLeaves
    \cup {Leaf("BOGUS", NoneId), Leaf("AND_ALL", NoneId), Leaf("METAVARIABLE_REGEX", NoneId),
          WithChildren(WhereLeaf("vars[$X] == a"), <<>>)}
    \cup {Composite(o, c) : o \in OPERATORS_WITH_CHILDREN,
                            c \in Lists(WhereChildren, MaxChildren)}

InitWhere ==
    Inputs(Lists(MatchesOn({"p1"}, WideIntervals, {<<>>, X_a, X_b}), MaxMatches - 1),
           {Rule("search", e, <<>>, <<>>) : e \in WhereExpressions}, BOOLEAN, TRUE)

SpecWhere == InitWhere /\ [][Next]_vars

\* ------------------------------------------------------------------- C3

\* The capability flag is disabled, or no flags were supplied
FlagOff == IF op = "evaluate" THEN ~allow_exec ELSE call_flags \in {<<>>, <<FALSE>>}

\* The calls that hand a WHERE_PYTHON leaf to _evaluate_single_expression
ReachedWhere ==
    {k \in CallEntries :
        /\ res.calls[k].operator = "WHERE_PYTHON"
        /\ NodeAt(rule.expression, res.calls[k].path).children = <<>>}

\* C3: when a WHERE_PYTHON leaf is reached with the flag disabled or without
\* flags, the call raises the SemgrepError that carries
\* NEED_ARBITRARY_CODE_EXEC_EXIT_CODE, for every candidate set and operand
\* shape; the leaf is the last thing evaluated, exec() is never run and
\* there are no findings.  No other error carries that code.
C3_ExecutionNotAllowed ==
    pc = "done" =>
        /\ (FlagOff /\ ReachedWhere # {}) =>
              /\ res.err = "SemgrepError"
              /\ res.code = NEED_ARBITRARY_CODE_EXEC_EXIT_CODE
              /\ res.msg = "need_exec"
              /\ ReachedWhere = {Len(res.calls)}
              /\ ExecEntries = {}
              /\ output = <<>>
        /\ (res.err # "none" /\ res.msg # "need_exec") =>
              res.code # NEED_ARBITRARY_CODE_EXEC_EXIT_CODE

C3_Witness ==
    /\ pc = "done" /\ op = "_evaluate_expression"
    /\ call_flags = <<>>
    /\ ranges_in = {} /\ pattern_matches # <<>>
    /\ rule.expression = Leaf("WHERE_PYTHON", NoneId)
    /\ res.code = NEED_ARBITRARY_CODE_EXEC_EXIT_CODE

\* ------------------------------------------------------------------- C8

FlagOn == IF op = "evaluate" THEN allow_exec ELSE call_flags = <<TRUE>>

\* The candidate set the root expression was given
RootCandidates == IF op = "_evaluate_expression" THEN ranges_in ELSE AllRanges(pattern_matches)

\* What exec() does with the predicate on match i
OutcomeOn(i) == ExecOutcome(rule.expression.operand.str, pattern_matches[i].metavars)

\* The matches a WHERE_PYTHON root runs its predicate on
Candidates == {i \in 1..Len(pattern_matches) : InSet(pattern_matches[i].range, RootCandidates)}

\* C8: with the flag enabled, a predicate run that raises (KeyError for an
\* unbound metavariable, or any other exception) counts as false for that
\* match and evaluation goes on; a range is kept iff the predicate is True on
\* some match of that range; only a run that ends with a value that is not a
\* bool aborts, with the fatal SemgrepError.
C8_PredicateFailureIsLocal ==
    (pc = "done" /\ FlagOn) =>
        /\ \A k \in ExecEntries :
              IF res.calls[k].note = "NonBool"
              THEN k = Len(res.calls) /\ res.err = "SemgrepError"
                   /\ res.msg = "needs_boolean" /\ res.code = FATAL_EXIT_CODE
              ELSE k < Len(res.calls) \/ res.err = "none"
        /\ res.msg = "needs_boolean" =>
              res.calls[Len(res.calls)].note = "NonBool"
        /\ (rule.expression \in WhereLeaves /\ rule.expression.operand.type = "str") =>
              IF \E i \in Candidates : OutcomeOn(i) = "NonBool"
              THEN res.msg = "needs_boolean"
              ELSE /\ res.err = "none"
                   /\ Cardinality(ExecEntries) = Cardinality(Candidates)
                   /\ Keys(res.ranges) \subseteq Keys(RootCandidates)
                   /\ \A r \in RootCandidates :
                         InSet(r, res.ranges) <=>
                            \E i \in 1..Len(pattern_matches) :
                                /\ RangeEq(pattern_matches[i].range, r)
                                /\ OutcomeOn(i) = "True"

C8_Witness ==
    /\ pc = "done" /\ op = "_evaluate_expression" /\ FlagOn
    /\ rule.expression = WhereLeaf("vars[$X] == a")
    /\ Len(pattern_matches) = 2
    /\ RangeEq(pattern_matches[1].range, pattern_matches[2].range)
    /\ OutcomeOn(1) = "KeyError" /\ OutcomeOn(2) = "True"
    /\ ranges_in # {}
    /\ Keys(res.ranges) = Keys(ranges_in)

\* ------------------------------------------------ specification: SpecLeaf
\* The enclosure leaves for a pattern id with matches, without matches and
\* for no pattern id, over all intervals and every subset of the ranges.

EnclosureLeaves ==
    {Leaf(o, id) : o \in {"AND_INSIDE", "AND_NOT_INSIDE"}, id \in {"p1", "p2", "p3", NoneId}}

InitLeaf ==
    Inputs(Lists(MatchesOn({"p1", "p2"}, Intervals, {<<>>}), MaxMatches - 1),
           {Rule("search", e, <<>>, <<>>) : e \in EnclosureLeaves}, {FALSE}, TRUE)

SpecLeaf == InitLeaf /\ [][Next]_vars

\* ------------------------------------------------------------------- C5

\* Some match of the pattern id has a range p with p.start <= r.start and
\* r.end <= p.end
EnclosedBy(id, r) ==
    \E i \in 1..Len(pattern_matches) :
        /\ pattern_matches[i].id = id
        /\ pattern_matches[i].range.start <= r.start
        /\ r.end <= pattern_matches[i].range.end

\* The other enclosure leaf for the same id, evaluated against the same set
DualLeaf ==
    _evaluate_expression(
        Leaf(IF rule.expression.operator = "AND_INSIDE" THEN "AND_NOT_INSIDE"
             ELSE "AND_INSIDE", rule.expression.pattern_id),
        group_by_pattern_id(pattern_matches), RootCandidates, <<>>, <<>>, call_flags, <<>>)

\* C5: for every pattern id and candidate set C, the results of AND_INSIDE
\* and AND_NOT_INSIDE on C are disjoint, their union is C, and a range of C
\* is on the AND_INSIDE side iff some match range of the id encloses or
\* equals it.
C5_EnclosureDuality ==
    (pc = "done" /\ rule.expression \in EnclosureLeaves) =>
        LET inside == IF rule.expression.operator = "AND_INSIDE"
                      THEN res.ranges ELSE DualLeaf.ranges
            not_inside == IF rule.expression.operator = "AND_INSIDE"
                          THEN DualLeaf.ranges ELSE res.ranges
        IN  /\ res.err = "none" /\ DualLeaf.err = "none"
            /\ inside \cap not_inside = {}
            /\ inside \cup not_inside = RootCandidates
            /\ \A r \in RootCandidates :
                  r \in inside <=> EnclosedBy(rule.expression.pattern_id, r)

C5_Witness ==
    /\ pc = "done" /\ op = "_evaluate_expression"
    /\ rule.expression = Leaf("AND_INSIDE", "p2")
    /\ Cardinality(AllRanges(pattern_matches)) = 2
    /\ Cardinality(ranges_in) = 1
    /\ res.ranges = ranges_in
    /\ \A r \in res.ranges :
          \A i \in 1..Len(pattern_matches) :
              pattern_matches[i].id = "p2" => ~RangeEq(pattern_matches[i].range, r)

\* ------------------------------------------------- specification: SpecAll
\* AND_ALL over children of every kind of operator, the user predicate
\* included, on matches of two pattern ids that share ranges and differ in
\* the metavariables they bind.

AllChildren ==
    {Leaf(o, "p1") : o \in {"AND", "AND_NOT", "AND_INSIDE", "AND_NOT_INSIDE"}}
    \cup {Leaf(o, "p2") : o \in {"AND", "REGEX", "NOT_REGEX"}}
    \cup {BooleanRuleExpression("METAVARIABLE_REGEX", NoneId, <<>>,
                                RegexOperand(Str_X, <<"a">>)),
          BooleanRuleExpression("METAVARIABLE_COMPARISON", NoneId, <<>>,
                                ComparisonOperand(Str_X, "$X > 5", <<TRUE>>, <<>>)),
          WhereLeaf("vars[$X] == a"), WhereLeaf("vars[$X]"),
          Composite("AND_EITHER", <<Leaf("AND", "p1"), WhereLeaf("vars[$X] == a")>>),
          Composite("AND_ALL", <<Leaf("AND_INSIDE", "p2"), Leaf("AND_NOT", "p1")>>)}

X_7 == <<Binding(Str_X, <<"sq", "7", "sq">>)>>

InitAll ==
    Inputs(Lists(MatchesOn({"p1", "p2"}, WideIntervals, {<<>>, X_a, X_7}), MaxMatches - 1),
           {Rule("search", Composite("AND_ALL", c), <<>>, <<>>) :
               c \in Lists(AllChildren, MaxChildren) \ Lists(AllChildren, 1)},
           {TRUE}, FALSE)

SpecAll == InitAll /\ [][Next]_vars

\* ------------------------------------------------------------------- C2

\* The flags the root expression was evaluated with
RootFlags == IF op = "evaluate" THEN <<allow_exec>> ELSE call_flags

\* The orders the children of the root can be put in
ChildOrders ==
    LET children == rule.expression.children[1]
    IN  {[i \in 1..Len(children) |-> children[f[i]]] : f \in Permutations(1..Len(children))}

\* The root with its children in another order, on the same inputs
Reordered(children) ==
    _evaluate_expression(Composite(rule.expression.operator, children),
                         group_by_pattern_id(pattern_matches), RootCandidates,
                         <<>>, <<>>, RootFlags, <<>>)

\* C2: an AND_ALL node gives the same final range set whatever the order of
\* its children, for children of every operator kind.
C2_AndAllOrderIndependent ==
    (pc = "done" /\ rule.expression.operator = "AND_ALL" /\ rule.expression.children # <<>>) =>
        \A children \in ChildOrders :
            /\ (Reordered(children).err = "none") <=> (res.err = "none")
            /\ Keys(Reordered(children).ranges) = Keys(res.ranges)

\* ------------------------------------------------- specification: SpecMsg
\* evaluate() on rules with a message template and an optional fix template,
\* over matches of which some bind $X, some bind $Y and some bind nothing,
\* on a range and on a range that encloses it.

Y_c == <<Binding(Str_Y, <<"c">>)>>

MessageTemplate == <<"$", "X", "-", "$", "Y", "-", "$", "X">>
FixTemplate == <<"$", "Y", "+", "$", "X">>

MsgMatches ==
    MatchesOn({"p1"}, WideIntervals, {<<>>, X_a, X_b, Y_c})
    \cup MatchesOn({"p2"}, {<<0, MaxPos>>}, {X_b, Y_c})

MsgRules ==
    {Rule(m, Leaf("AND", "p1"), MessageTemplate, f) :
        m \in {"search", TAINT_MODE}, f \in {<<>>, <<FixTemplate>>}}

InitMsg == Inputs(Lists(MsgMatches, MaxMatches), MsgRules, {FALSE}, FALSE)

SpecMsg == InitMsg /\ [][Next]_vars

\* The input positions of the matches that bind a name
Binders(name) ==
    {j \in 1..Len(pattern_matches) :
        \E k \in 1..Len(pattern_matches[j].metavars) :
            pattern_matches[j].metavars[k].name = name}

\* The text a match binds a name to
BoundText(j, name) ==
    LET mv == pattern_matches[j].metavars
    IN  mv[CHOOSE k \in 1..Len(mv) : mv[k].name = name].abstract_content

BoundNames == {name \in MetavarNames : Binders(name) # {}}

\* The input positions of the matches that bind a name and whose range
\* encloses or equals the range of match i
EnclosingBinders(i, name) ==
    {j \in Binders(name) :
        /\ pattern_matches[j].range.start <= pattern_matches[i].range.start
        /\ pattern_matches[i].range.end <= pattern_matches[j].range.end}

Least(S) == CHOOSE j \in S : \A k \in S : j <= k

\* The text that stands for a name in the message of match i
MessageText(i, name) ==
    IF i \in Binders(name) THEN BoundText(i, name)
    ELSE IF EnclosingBinders(i, name) # {}
         THEN BoundText(Least(EnclosingBinders(i, name)), name)
         ELSE name

\* A template with every name of a set replaced by its text for match i
RECURSIVE Substituted(_, _, _, _)
Substituted(template, names, text(_, _), i) ==
    IF names = {} THEN template
    ELSE LET name == CHOOSE n \in names : TRUE
         IN  Substituted(str_replace(template, name, text(i, name)),
                         names \ {name}, text, i)

\* The input positions a finding can stand for
PositionsOf(rule_match) ==
    {i \in 1..Len(pattern_matches) : pattern_matches[i] = rule_match.pattern_match}

\* ------------------------------------------------------------------- C6

Reported ==
    {i \in 1..Len(pattern_matches) :
        \E r \in EvaluateRanges(rule, pattern_matches, allow_exec).ranges :
            RangeEq(r, pattern_matches[i].range)}

\* The names a template refers to
RECURSIVE Contains(_, _)
Contains(s, sub) ==
    IF Len(s) < Len(sub) THEN FALSE
    ELSE StartsWith(s, sub) \/ Contains(Tail(s), sub)

\* The text that stands for a name in the fix of match i
FixText(i, name) == IF i \in Binders(name) THEN BoundText(i, name) ELSE name

\* C9 as stated: a fix template that names a metavariable a reported match
\* does not bind makes evaluate() fail with a key-lookup error.
C9_FixBindingMissIsFatal ==
    (/\ pc = "done" /\ op = "evaluate" /\ rule.fix # <<>>
     /\ \E i \in Reported : \E name \in MetavarNames :
           Contains(rule.fix[1], name) /\ i \notin Binders(name))
        => res.err = "KeyError"

\* C9 as amended: with a fix template, the fix of a finding is the template
\* with the names its own match binds replaced by their text and every other
\* name left in place, whatever enclosing matches bind, and building it
\* raises nothing.
C9_FixOwnBindingsOnly ==
    (pc = "done" /\ op = "evaluate" /\ rule.fix # <<>>) =>
        /\ res.err = "none"
        /\ Len(output) = Cardinality(Reported)
        /\ \A k \in 1..Len(output) :
              \A i \in PositionsOf(output[k]) :
                  output[k].fix =
                      <<Substituted(rule.fix[1], MetavarNames, FixText, i)>>

\* A finding whose match binds $Y only, enclosed by a match binding $X: the
\* message takes the enclosing text, the fix keeps the placeholder.
C9_Witness ==
    /\ pc = "done" /\ op = "evaluate" /\ res.err = "none"
    /\ rule.fix = <<FixTemplate>>
    /\ Len(pattern_matches) = 2
    /\ pattern_matches[1] = PatternMatch("p2", 0, MaxPos, X_b)
    /\ pattern_matches[2] = PatternMatch("p1", 0, 1, Y_c)
    /\ Len(output) = 1
    /\ output[1].message = <<"b", "-", "c", "-", "b">>
    /\ output[1].fix = << <<"c", "+", "$", "X">> >>

\* ---------------------------------------------- specification: SpecEither
\* AND_EITHER nodes over leaves of several kinds and nested composites that
\* narrow their own copy of the candidate set, on any candidate set.

EitherChildren ==
    {Leaf("AND", "p1"), Leaf("AND_NOT", "p2"), WhereLeaf("vars[$X] == a"),
     Composite("AND_ALL", <<Leaf("AND", "p2"), Leaf("AND_NOT_INSIDE", "p1")>>)}

EitherMatches ==
    MatchesOn({"p1"}, WideIntervals, {<<>>, X_a}) \cup MatchesOn({"p2"}, {<<0, 1>>}, {<<>>})

InitEither ==
    Inputs(Lists(EitherMatches, MaxMatches - 1),
           {Rule("search", Composite("AND_EITHER", c), <<>>, <<>>) :
               c \in Lists(EitherChildren, MaxChildren)},
           {TRUE}, TRUE)

SpecEither == InitEither /\ [][Next]_vars

\* ------------------------------------------------------------------ C10

\* The calls of _evaluate_expression on the children of the root
ChildCalls == {k \in CallEntries : Len(res.calls[k].path) = 1}

\* What child i of the root yields when evaluated on its own against a set
ChildAlone(i, candidates) ==
    _evaluate_expression(rule.expression.children[1][i],
                         group_by_pattern_id(pattern_matches), candidates,
                         <<>>, <<>>, RootFlags, <<i>>)

\* C10: every child of an AND_EITHER node is evaluated against the candidate
\* set C the node was entered with, whatever its siblings and their nested
\* composites did, and on a normal return a range is in the result iff it is
\* in C and in the output of at least one child.
C10_EitherChildrenSeeSameSet ==
    (pc = "done" /\ rule.expression.operator = "AND_EITHER") =>
        /\ \A k \in ChildCalls : res.calls[k].ranges_left = RootCandidates
        /\ res.err = "none" =>
              /\ Cardinality(ChildCalls) = Len(rule.expression.children[1])
              /\ Keys(res.ranges) =
                    Keys(RootCandidates) \cap
                    UNION {Keys(ChildAlone(i, RootCandidates).ranges) :
                              i \in 1..Len(rule.expression.children[1])}

\* A nested AND_ALL that narrows two candidates to none comes first; its
\* sibling still sees both candidates and keeps one of them.
C10_Witness ==
    /\ pc = "done" /\ op = "_evaluate_expression" /\ res.err = "none"
    /\ rule.expression.children[1] =
          <<Composite("AND_ALL", <<Leaf("AND", "p2"), Leaf("AND_NOT_INSIDE", "p1")>>),
            Leaf("AND", "p1")>>
    /\ Cardinality(Keys(ranges_in)) = 2
    /\ ChildAlone(1, ranges_in).ranges = {}
    /\ Cardinality(res.ranges) = 1

\* ----------------------------------------------- specification: SpecChain
\* AND_ALL nodes over leaves of several kinds and a nested composite, on any
\* candidate set.

InitChain ==
    Inputs(Lists(EitherMatches, MaxMatches - 1),
           {Rule("search", Composite("AND_ALL", c), <<>>, <<>>) :
               c \in Lists(EitherChildren, MaxChildren)},
           {TRUE}, TRUE)

SpecChain == InitChain /\ [][Next]_vars

\* ------------------------------------------------------------------ C11

\* The call of _evaluate_expression on child j of the root
CallOf(j) == CHOOSE k \in ChildCalls : res.calls[k].path = <<j>>

\* The positions child j of the root yields on the set its call was given
OutputOf(j) == Keys(ChildAlone(j, res.calls[CallOf(j)].ranges_left).ranges)

\* The positions of the candidate set left after the children before i
RunningBefore(i) ==
    {key \in Keys(RootCandidates) : \A j \in 1..(i - 1) : key \in OutputOf(j)}

====
